---- MODULE Spec2Model ----
(***************************************************************************)
(* Model of src/components/ChatWidget/ChatWidget.jsx: the ChatWidget React *)
(* component, the remote message table it reads and writes, the realtime   *)
(* channel it subscribes to, and the bot-reply timer.                      *)
(*                                                                         *)
(* Every event the JavaScript runtime can run to completion is one action: *)
(* a click, a key press, the resumption of an async function after an      *)
(* await, a timer callback, a realtime callback.  The remote store is the  *)
(* environment: it answers a select or an insert in a step of its own, so  *)
(* that requests overlap the way they do on the network.                   *)
(***************************************************************************)
EXTENDS Integers, Sequences, FiniteSets, TLC

\* ------------------------------------------------------------------ bounds
MaxOpens == 2        \* closed -> open transitions explored
MaxSubmits == 2      \* accepted submits explored
MaxTicks == 1        \* clock ticks explored

\* --------------------------------------------------------------- constants
BOT_REPLY_DELAY_MS == 1000
TickMs == BOT_REPLY_DELAY_MS

NoError == "null"
FetchErrorMsg == "FETCH_FAILED"
UnexpectedErrorMsg == "UNEXPECTED_FETCH_FAILURE"

Whitespace == {" ", "\t"}

\* Drafts the user can have in the input box (sequences of characters).
Drafts ==
  { <<>>, <<"\t", " ">>, <<" ", "a", " ">> }

\* The remote table when the component mounts: no message has been sent.
InitialTables == { <<>> }

\* ----------------------------------------------------------- pure helpers
RECURSIVE TrimStart(_)
TrimStart(s) ==
  IF s = <<>> THEN <<>>
  ELSE IF Head(s) \in Whitespace THEN TrimStart(Tail(s)) ELSE s

RECURSIVE TrimEnd(_)
TrimEnd(s) ==
  IF s = <<>> THEN <<>>
  ELSE IF s[Len(s)] \in Whitespace THEN TrimEnd(SubSeq(s, 1, Len(s) - 1)) ELSE s

\* A test of the raw draft, with no trim.
TrimNone(s) == s

\* String.prototype.trim
Trim(s) == TrimEnd(TrimStart(s))

\* The fixed tail of the bot reply (the Korean sentence of the source,
\* romanised).
BotSuffix == " rago ipryeokhasyeotseumnida. jeoneun gojeonjeogin botimnida."

\* The template literal of the bot reply: the quoted input, then the tail.
BotText(currentInput) == <<"\"">> \o currentInput \o <<"\"", BotSuffix>>

\* Insert row r into the sequence s, sorted by timestamp, after equal keys.
RECURSIVE InsertSorted(_, _)
InsertSorted(s, r) ==
  IF s = <<>> THEN <<r>>
  ELSE IF r.timestamp < Head(s).timestamp THEN <<r>> \o s
  ELSE <<Head(s)>> \o InsertSorted(Tail(s), r)

\* .order('timestamp', { ascending: true })
RECURSIVE OrderByTimestamp(_)
OrderByTimestamp(rows) ==
  IF rows = <<>> THEN <<>>
  ELSE InsertSorted(OrderByTimestamp(SubSeq(rows, 1, Len(rows) - 1)),
                    rows[Len(rows)])

Ids(s) == { s[i].id : i \in 1..Len(s) }

\* ----------------------------------------------------------------- state
VARIABLES
  messages,       \* useState([])
  inputValue,     \* useState('')
  isOpen,         \* useState(false)
  loading,        \* useState(true)
  error,          \* useState(null)
  mounted,        \* the component is mounted
  effectChannel,  \* the channel captured by the pending effect cleanup, 0 if none
  fetches,        \* select requests in flight
  fetchCalls,     \* number of fetchMessages() calls so far
  procs,          \* invocations of handleSendMessage that passed the guard
  inserts,        \* insert requests in flight
  persistLog,     \* the insert calls issued so far, in order
  table,          \* the remote messages table, in insertion order
  channels,       \* realtime channels registered with the client
  subsCreated,    \* number of channels created so far
  now             \* the clock, in ms

vars ==
  << messages, inputValue, isOpen, loading, error, mounted, effectChannel,
     fetches, fetchCalls, procs, inserts, persistLog, table, channels,
     subsCreated, now >>

compVars == << messages, inputValue, isOpen, loading, error >>
sendVars == << procs, inserts, persistLog >>
subVars == << effectChannel, channels, subsCreated >>
fetchVars == << fetches, fetchCalls >>

Init ==
  /\ messages = <<>>
  /\ inputValue = <<>>
  /\ isOpen = FALSE
  /\ loading = TRUE
  /\ error = NoError
  /\ mounted = TRUE
  /\ effectChannel = 0
  /\ fetches = {}
  /\ fetchCalls = 0
  /\ procs = <<>>
  /\ inserts = {}
  /\ persistLog = <<>>
  /\ table \in InitialTables
  /\ channels = {}
  /\ subsCreated = 0
  /\ now = 0

\* ------------------------------------------------------------ the effect
\* The request of supabase.from(MESSAGES_TABLE).select('*').order(...), not
\* yet answered.
SelectRequest(n) ==
  [id |-> n, state |-> "pending", data |-> <<>>, dataNull |-> TRUE]

\* removeChannel that is handed another channel than the one created.
RemoveChannelOther(chs, c) == { ch \in chs : ch.id # c + 1 }

\* supabase.removeChannel(channel)
RemoveChannel(chs, c) == { ch \in chs : ch.id # c }

\* An effect that returns no cleanup.
EffectCleanupMissing(chs, c) == chs

\* The cleanup returned by the open/close effect.
EffectCleanup(chs, c) == RemoveChannel(chs, c)

\* The new channel of supabase.channel(...).on(...).subscribe(): it reports
\* the rows inserted after it was created.
NewChannel(n) == [id |-> n, since |-> Len(table)]

\* The effect with the else branch reloading the history on close.
OpenCloseEffectReload(open) ==
  /\ loading' = TRUE
  /\ error' = IF open THEN NoError ELSE error
  /\ fetchCalls' = fetchCalls + 1
  /\ fetches' = fetches \cup {SelectRequest(fetchCalls + 1)}
  /\ IF open
     THEN /\ subsCreated' = subsCreated + 1
          /\ channels' = channels \cup {NewChannel(subsCreated + 1)}
          /\ effectChannel' = subsCreated + 1
     ELSE /\ channels' = EffectCleanup(channels, effectChannel)
          /\ effectChannel' = 0
          /\ subsCreated' = subsCreated

\* The effect with the commented-out reset of the else branch switched on.
OpenCloseEffectResetOnClose(open) ==
  IF open
  THEN /\ loading' = TRUE
       /\ error' = NoError
       /\ fetchCalls' = fetchCalls + 1
       /\ fetches' = fetches \cup {SelectRequest(fetchCalls + 1)}
       /\ subsCreated' = subsCreated + 1
       /\ channels' = channels \cup {NewChannel(subsCreated + 1)}
       /\ effectChannel' = subsCreated + 1
  ELSE /\ channels' = EffectCleanup(channels, effectChannel)
       /\ effectChannel' = 0
       /\ loading' = TRUE
       /\ UNCHANGED << error, fetchCalls, fetches, subsCreated >>

\* useEffect(..., [isOpen, fetchMessages]) as it runs after toggleChat's
\* render: with open = TRUE the body of the if branch, with open = FALSE the
\* cleanup of the previous run (the else branch is empty).
OpenCloseEffect(open) ==
  IF open
  THEN /\ loading' = TRUE
       /\ error' = NoError
       /\ fetchCalls' = fetchCalls + 1
       /\ fetches' = fetches \cup {SelectRequest(fetchCalls + 1)}
       /\ subsCreated' = subsCreated + 1
       /\ channels' = channels \cup {NewChannel(subsCreated + 1)}
       /\ effectChannel' = subsCreated + 1
  ELSE /\ channels' = EffectCleanup(channels, effectChannel)
       /\ effectChannel' = 0
       /\ UNCHANGED << loading, error, fetchCalls, fetches, subsCreated >>

\* toggleChat, with the render and the effect it causes.
ToggleChat ==
  /\ mounted
  /\ isOpen \/ fetchCalls < MaxOpens
  /\ isOpen' = ~isOpen
  /\ OpenCloseEffect(~isOpen)
  /\ UNCHANGED << messages, inputValue, mounted, sendVars, table, now >>

\* The component is unmounted: React runs the pending effect cleanup.
Unmount ==
  /\ mounted
  /\ mounted' = FALSE
  /\ IF effectChannel # 0
     THEN channels' = EffectCleanup(channels, effectChannel)
     ELSE channels' = channels
  /\ effectChannel' = 0
  /\ UNCHANGED << compVars, fetchVars, sendVars, table, subsCreated, now >>

\* ------------------------------------------------------- the history fetch
\* The answers the store can give to a select: the rows ordered by timestamp
\* (or no data at all when there are none), an error object, or a rejected
\* promise.
SelectAnswers(f) ==
  { [f EXCEPT !.state = "data", !.data = OrderByTimestamp(table),
              !.dataNull = FALSE] }
  \cup (IF table = <<>> THEN { [f EXCEPT !.state = "data"] } ELSE {})
  \cup { [f EXCEPT !.state = "error"], [f EXCEPT !.state = "thrown"] }

\* The store answers a select request.
StoreSelect ==
  \E f \in fetches :
    /\ f.state = "pending"
    /\ \E a \in SelectAnswers(f) : fetches' = (fetches \ {f}) \cup {a}
    /\ UNCHANGED << compVars, mounted, fetchCalls, sendVars, subVars, table, now >>

\* data || []
OrEmpty(f) == IF f.dataNull THEN <<>> ELSE f.data

\* fetchMessages whose catch block keeps the list.
FetchMessagesResumeKeep(f) ==
  /\ f \in fetches
  /\ f.state # "pending"
  /\ fetches' = fetches \ {f}
  /\ CASE f.state = "error" ->
            /\ error' = FetchErrorMsg
            /\ messages' = <<>>
       [] f.state = "thrown" ->
            /\ error' = UnexpectedErrorMsg
            /\ messages' = messages
       [] OTHER ->
            /\ messages' = OrEmpty(f)
            /\ error' = error
  /\ loading' = FALSE
  /\ UNCHANGED << inputValue, isOpen, mounted, fetchCalls, sendVars, subVars,
                  table, now >>

\* fetchMessages whose success branch resets the error.
FetchMessagesResumeClearsError(f) ==
  /\ f \in fetches
  /\ f.state # "pending"
  /\ fetches' = fetches \ {f}
  /\ CASE f.state = "error" ->
            /\ error' = FetchErrorMsg
            /\ messages' = <<>>
       [] f.state = "thrown" ->
            /\ error' = UnexpectedErrorMsg
            /\ messages' = <<>>
       [] OTHER ->
            /\ messages' = OrEmpty(f)
            /\ error' = NoError
  /\ loading' = FALSE
  /\ UNCHANGED << inputValue, isOpen, mounted, fetchCalls, sendVars, subVars,
                  table, now >>

\* fetchMessages after the await, for the answered request f.
FetchMessagesResume(f) ==
  /\ f \in fetches
  /\ f.state # "pending"
  /\ fetches' = fetches \ {f}
  /\ CASE f.state = "error" ->
            /\ error' = FetchErrorMsg
            /\ messages' = <<>>
       [] f.state = "thrown" ->
            /\ error' = UnexpectedErrorMsg
            /\ messages' = <<>>
       [] OTHER ->
            /\ messages' = OrEmpty(f)
            /\ error' = error
  /\ loading' = FALSE
  /\ UNCHANGED << inputValue, isOpen, mounted, fetchCalls, sendVars, subVars,
                  table, now >>

FetchResume == \E f \in fetches : FetchMessagesResume(f)

\* ------------------------------------------------------ the realtime feed
\* The updater without the duplicate check.
AppendAlways(prevMessages, new) == Append(prevMessages, new)

\* The updater passed to setMessages by the INSERT callback.
AppendIfNew(prevMessages, new) ==
  IF \E i \in 1..Len(prevMessages) : prevMessages[i].id = new.id
  THEN prevMessages
  ELSE Append(prevMessages, new)

\* The postgres_changes INSERT callback, for payload.new = row.
OnInsert(row) ==
  /\ messages' = AppendIfNew(messages, row)
  /\ UNCHANGED << inputValue, isOpen, loading, error, mounted, fetchVars,
                  sendVars, subVars, table, now >>

\* The realtime service delivers (possibly once more) a row inserted after
\* the channel was created to the callback of a registered channel.
RealtimeInsert ==
  \E c \in channels : \E i \in (c.since + 1)..Len(table) : OnInsert(table[i])

\* ------------------------------------------------------------- the input
\* An input that is disabled on error only.
InputDisabledOnErrorOnly == error # NoError

\* disabled={loading || !!error} of the input
InputDisabled == loading \/ error # NoError

\* disabled={inputValue.trim() === '' || loading || !!error} of the button
SendDisabled == Trim(inputValue) = <<>> \/ loading \/ error # NoError

\* handleInputChange: the user edits the draft (the form is rendered only
\* while the widget is open, and a disabled input takes no edits).
HandleInputChange ==
  /\ mounted /\ isOpen /\ ~InputDisabled
  /\ \E v \in Drafts : v # inputValue /\ inputValue' = v
  /\ UNCHANGED << messages, isOpen, loading, error, mounted, fetchVars,
                  sendVars, subVars, table, now >>

\* The request of supabase.from(MESSAGES_TABLE).insert([...]), not yet
\* answered, issued by invocation p of handleSendMessage.
InsertRequest(p, messageToSave) ==
  [proc |-> p, text |-> messageToSave.text, sender |-> messageToSave.sender,
   timestamp |-> messageToSave.timestamp, state |-> "pending"]

LogEntry(p, messageToSave) ==
  [proc |-> p, text |-> messageToSave.text, sender |-> messageToSave.sender,
   at |-> now]

\* handleSendMessage up to its await.
HandleSendMessage ==
  LET trimmedInput == Trim(inputValue)
      userMessage ==
        [text |-> trimmedInput, sender |-> "user", timestamp |-> now]
      p == Len(procs) + 1
  IN IF trimmedInput = <<>>
     THEN UNCHANGED vars
     ELSE /\ Len(procs) < MaxSubmits
          /\ procs' = Append(procs, [pc |-> "awaitUser",
                                     inputValue |-> inputValue,
                                     currentInput |-> trimmedInput,
                                     due |-> 0])
          /\ inserts' = inserts \cup {InsertRequest(p, userMessage)}
          /\ persistLog' = Append(persistLog, LogEntry(p, userMessage))
          /\ UNCHANGED << compVars, mounted, fetchVars, subVars, table, now >>

\* Enter without shift in the input: handleKeyPress.  A disabled input gets
\* no key events.
HandleKeyPress ==
  /\ mounted /\ isOpen
  /\ IF InputDisabled THEN UNCHANGED vars ELSE HandleSendMessage

\* A click on the send button: the form's onSubmit.  A disabled button
\* submits nothing.
SubmitClick ==
  /\ mounted /\ isOpen
  /\ IF SendDisabled THEN UNCHANGED vars ELSE HandleSendMessage

\* The answers the store can give to an insert.
InsertOutcomes == {"ok", "error", "thrown"}

\* The row the store makes of an insert request: it assigns the id.
NewRow(r) ==
  [id |-> Len(table) + 1, text |-> r.text, sender |-> r.sender,
   timestamp |-> r.timestamp]

\* The store answers an insert request.
StoreInsert ==
  \E r \in inserts : \E o \in InsertOutcomes :
    /\ r.state = "pending"
    /\ inserts' = (inserts \ {r}) \cup {[r EXCEPT !.state = o]}
    /\ table' = IF o = "ok" THEN Append(table, NewRow(r)) ELSE table
    /\ UNCHANGED << compVars, mounted, fetchVars, procs, persistLog, subVars,
                    now >>

\* The resumption with the optimistic update of the list switched on.
SendResumeOptimistic(r) ==
  /\ r \in inserts
  /\ r.state # "pending"
  /\ r.sender = "user"
  /\ procs[r.proc].pc = "awaitUser"
  /\ inserts' = inserts \ {r}
  /\ inputValue' = <<>>
  /\ messages' = Append(messages, [id |-> 0, text |-> r.text,
                                   sender |-> r.sender,
                                   timestamp |-> r.timestamp])
  /\ procs' = [procs EXCEPT ![r.proc].pc = "timer",
                            ![r.proc].due = now + BOT_REPLY_DELAY_MS]
  /\ UNCHANGED << isOpen, loading, error, mounted, fetchVars,
                  persistLog, subVars, table, now >>

\* The resumption of a handler that gives up when the save has failed.
SendResumeStopOnFailure(r) ==
  /\ r \in inserts
  /\ r.state # "pending"
  /\ r.sender = "user"
  /\ procs[r.proc].pc = "awaitUser"
  /\ inserts' = inserts \ {r}
  /\ IF r.state = "ok"
     THEN /\ inputValue' = <<>>
          /\ procs' = [procs EXCEPT ![r.proc].pc = "timer",
                                    ![r.proc].due = now + BOT_REPLY_DELAY_MS]
     ELSE /\ inputValue' = inputValue
          /\ procs' = [procs EXCEPT ![r.proc].pc = "done"]
  /\ UNCHANGED << messages, isOpen, loading, error, mounted, fetchVars,
                  persistLog, subVars, table, now >>

\* handleSendMessage after await saveMessageToSupabase(userMessage): the
\* save has returned (it swallows every failure), the draft is cleared and
\* the bot reply is scheduled.
SendResume(r) ==
  /\ r \in inserts
  /\ r.state # "pending"
  /\ r.sender = "user"
  /\ procs[r.proc].pc = "awaitUser"
  /\ inserts' = inserts \ {r}
  /\ inputValue' = <<>>
  /\ procs' = [procs EXCEPT ![r.proc].pc = "timer",
                            ![r.proc].due = now + BOT_REPLY_DELAY_MS]
  /\ UNCHANGED << messages, isOpen, loading, error, mounted, fetchVars,
                  persistLog, subVars, table, now >>

UserSaved == \E r \in inserts : SendResume(r)

\* A timer callback that runs without waiting for the delay.
BotReplyNoDelay(p) ==
  LET botResponse ==
        [text |-> BotText(procs[p].currentInput), sender |-> "bot",
         timestamp |-> now]
  IN /\ procs[p].pc = "timer"
     /\ procs' = [procs EXCEPT ![p].pc = "awaitBot"]
     /\ inserts' = inserts \cup {InsertRequest(p, botResponse)}
     /\ persistLog' = Append(persistLog, LogEntry(p, botResponse))
     /\ UNCHANGED << compVars, mounted, fetchVars, subVars, table, now >>

\* A timer callback that is cleared when the widget closes or unmounts.
BotReplyWhileOpen(p) ==
  LET botResponse ==
        [text |-> BotText(procs[p].currentInput), sender |-> "bot",
         timestamp |-> now]
  IN /\ procs[p].pc = "timer"
     /\ now >= procs[p].due
     /\ isOpen /\ mounted
     /\ procs' = [procs EXCEPT ![p].pc = "awaitBot"]
     /\ inserts' = inserts \cup {InsertRequest(p, botResponse)}
     /\ persistLog' = Append(persistLog, LogEntry(p, botResponse))
     /\ UNCHANGED << compVars, mounted, fetchVars, subVars, table, now >>

\* The setTimeout callback of invocation p, up to its await.
BotReply(p) ==
  LET botResponse ==
        [text |-> BotText(procs[p].currentInput), sender |-> "bot",
         timestamp |-> now]
  IN /\ procs[p].pc = "timer"
     /\ now >= procs[p].due
     /\ procs' = [procs EXCEPT ![p].pc = "awaitBot"]
     /\ inserts' = inserts \cup {InsertRequest(p, botResponse)}
     /\ persistLog' = Append(persistLog, LogEntry(p, botResponse))
     /\ UNCHANGED << compVars, mounted, fetchVars, subVars, table, now >>

TimerFires == \E p \in 1..Len(procs) : BotReply(p)

\* The setTimeout callback after await saveMessageToSupabase(botResponse).
BotResume(r) ==
  /\ r \in inserts
  /\ r.state # "pending"
  /\ r.sender = "bot"
  /\ procs[r.proc].pc = "awaitBot"
  /\ inserts' = inserts \ {r}
  /\ procs' = [procs EXCEPT ![r.proc].pc = "done"]
  /\ UNCHANGED << compVars, mounted, fetchVars, persistLog, subVars, table,
                  now >>

BotSaved == \E r \in inserts : BotResume(r)

\* Time passes.
Tick ==
  /\ now < MaxTicks * TickMs
  /\ now' = now + TickMs
  /\ UNCHANGED << compVars, mounted, fetchVars, sendVars, subVars, table >>

Next ==
  \/ ToggleChat
  \/ Unmount
  \/ StoreSelect
  \/ FetchResume
  \/ RealtimeInsert
  \/ HandleInputChange
  \/ HandleKeyPress
  \/ SubmitClick
  \/ StoreInsert
  \/ UserSaved
  \/ TimerFires
  \/ BotSaved
  \/ Tick

Spec == Init /\ [][Next]_vars

\* ------------------------------------------------------------ properties
ChannelIds == { c.id : c \in channels }

\* A step in which a registered channel's callback runs for some row.
CallbackStep ==
  \E c \in channels : \E i \in (c.since + 1)..Len(table) : OnInsert(table[i])

NoDuplicateIds ==
  \A i, j \in 1..Len(messages) : i # j => messages[i].id # messages[j].id

\* C1: the messages list never holds two entries with the same id; a
\* callback for a row whose id is in the list leaves the list unchanged, and
\* one for a row whose id is not in the list makes it exactly one longer.
C1_UniqueIds ==
  [][ /\ NoDuplicateIds'
      /\ \A c \in channels : \A i \in (c.since + 1)..Len(table) :
            OnInsert(table[i]) =>
              IF table[i].id \in Ids(messages)
              THEN messages' = messages
              ELSE /\ Len(messages') = Len(messages) + 1
                   /\ Ids(messages') = Ids(messages) \cup {table[i].id} ]_vars

\* A row that is already in the list can be delivered once more.
C1_Witness ==
  /\ Len(messages) >= 2
  /\ \E c \in channels : \E i \in (c.since + 1)..Len(table) :
        table[i].id \in Ids(messages)

\* C2: a step from closed to open issues exactly one history fetch and
\* creates exactly one subscription; a step from open to closed removes
\* exactly the subscription of the matching open and issues no fetch.
C2_OpenClose ==
  [][ /\ (~isOpen /\ isOpen') =>
            /\ fetchCalls' = fetchCalls + 1
            /\ Cardinality(fetches') = Cardinality(fetches) + 1
            /\ fetches \subseteq fetches'
            /\ subsCreated' = subsCreated + 1
            /\ channels \subseteq channels'
            /\ Cardinality(channels') = Cardinality(channels) + 1
            /\ effectChannel' \in { c.id : c \in channels' \ channels }
      /\ (isOpen /\ ~isOpen') =>
            /\ fetchCalls' = fetchCalls
            /\ fetches' = fetches
            /\ subsCreated' = subsCreated
            /\ effectChannel \in ChannelIds
            /\ channels' = { c \in channels : c.id # effectChannel }
            /\ Cardinality(channels') = Cardinality(channels) - 1 ]_vars

\* The widget has been opened and closed again, and reopened.
C2_Witness ==
  /\ isOpen /\ mounted
  /\ fetchCalls = 2
  /\ ChannelIds = {2}

\* C3: at most one subscription is active in every reachable state, and
\* while the widget stays open no step (toggle aside: fetch completion,
\* insert, submit, timer) starts a fetch or creates a subscription; an
\* opening step starts at most one of each.
C3_AtMostOneSubscription ==
  [][ /\ Cardinality(channels') <= 1
      /\ (isOpen /\ isOpen') =>
            fetchCalls' = fetchCalls /\ subsCreated' = subsCreated
      /\ (~isOpen /\ isOpen') =>
            fetchCalls' <= fetchCalls + 1 /\ subsCreated' <= subsCreated + 1
    ]_vars

\* A second open period is under way with messages being submitted.
C3_Witness ==
  /\ isOpen /\ mounted
  /\ subsCreated = 2
  /\ Cardinality(channels) = 1
  /\ Len(procs) >= 1

\* C4: once the widget is closed or unmounted no channel is registered, and
\* no callback of a channel changes the messages list.
C4_NoCallbackWhileClosed ==
  [][ /\ (~isOpen' \/ ~mounted') => channels' = {}
      /\ (CallbackStep /\ messages' # messages) => (isOpen /\ mounted) ]_vars

\* The widget is closed after having been open, and the remote table holds a
\* row inserted since that is not in the list.
C4_Witness ==
  /\ ~isOpen
  /\ subsCreated >= 1
  /\ ~loading
  /\ \E i \in 1..Len(table) : table[i].id \notin Ids(messages)

\* The draft is empty or whitespace only.
IsBlank(s) == \A i \in 1..Len(s) : s[i] \in Whitespace

\* A step in which the user presses Enter in the input or clicks send.
SubmitIntent == HandleKeyPress \/ SubmitClick

\* C5: a submit of an empty or whitespace-only draft issues no persist
\* call, schedules no bot reply and leaves the draft and the list as they
\* were.
C5_BlankSubmitNoOp ==
  [][ (SubmitIntent /\ IsBlank(inputValue)) =>
        UNCHANGED << inserts, persistLog, procs, inputValue, messages >> ]_vars

\* The input is enabled and holds a whitespace-only draft.
C5_Witness ==
  /\ mounted /\ isOpen /\ ~InputDisabled
  /\ inputValue # <<>>
  /\ IsBlank(inputValue)

\* C6: while loading is true or error is set, a submit issues no persist
\* call, schedules no bot reply and does not clear the draft.
C6_DisabledSubmitNoOp ==
  [][ (SubmitIntent /\ (loading \/ error # NoError)) =>
        UNCHANGED << inserts, persistLog, procs, inputValue >> ]_vars

\* The widget is open and loading with a non-blank draft in the input.
C6_Witness ==
  /\ mounted /\ isOpen
  /\ loading
  /\ ~IsBlank(inputValue)

\* C7: a history fetch that fails leaves error set to a message, the list
\* empty and loading false, so that the input and the button are disabled.
C7_FetchFailure ==
  [][ \A f \in fetches :
        (FetchMessagesResume(f) /\ f.state \in {"error", "thrown"}) =>
          /\ error' \in {FetchErrorMsg, UnexpectedErrorMsg}
          /\ error' # NoError
          /\ messages' = <<>>
          /\ loading' = FALSE
          /\ InputDisabled'
          /\ SendDisabled' ]_vars

\* A fetch has failed while the remote table holds rows.
C7_Witness ==
  /\ error # NoError
  /\ ~loading
  /\ messages = <<>>
  /\ fetchCalls = 2
  /\ Len(table) >= 2

UserCalls(p) ==
  { i \in 1..Len(persistLog) :
      persistLog[i].proc = p /\ persistLog[i].sender = "user" }

BotCalls(p) ==
  { i \in 1..Len(persistLog) :
      persistLog[i].proc = p /\ persistLog[i].sender = "bot" }

\* C8: each accepted submit of trimmed text t has issued exactly one persist
\* call for {t, user}; it issues at most one persist call for the bot, whose
\* text is the template around t, not before the user persist has returned
\* and 1000 ms have passed since, and exactly one once it has run to its end.
C8_UserThenBot ==
  \A p \in 1..Len(procs) :
    /\ Cardinality(UserCalls(p)) = 1
    /\ Cardinality(BotCalls(p)) =
         (IF procs[p].pc \in {"awaitBot", "done"} THEN 1 ELSE 0)
    /\ \A u \in UserCalls(p) :
         /\ persistLog[u].text = procs[p].currentInput
         /\ ~IsBlank(persistLog[u].text)
         /\ \A b \in BotCalls(p) :
              /\ u < b
              /\ Len(persistLog[b].text) = Len(persistLog[u].text) + 3
              /\ persistLog[b].text[1] = "\""
              /\ SubSeq(persistLog[b].text, 2, Len(persistLog[u].text) + 1)
                   = persistLog[u].text
              /\ persistLog[b].text[Len(persistLog[u].text) + 2] = "\""
              /\ persistLog[b].text[Len(persistLog[b].text)] = BotSuffix
              /\ procs[p].due >= persistLog[u].at + BOT_REPLY_DELAY_MS
              /\ persistLog[b].at >= procs[p].due
              /\ \A r \in inserts : r.proc = p => r.sender = "bot"

\* A submit has run to its end: both persist calls have returned.
C8_Witness ==
  \E p \in 1..Len(procs) :
    /\ procs[p].pc = "done"
    /\ Len(persistLog) >= 2

\* C9: while the user persist of a submit is in flight the draft is already
\* empty, unless the user has changed it since the submit.
C9_DraftClearedAtIntent ==
  \A p \in 1..Len(procs) :
    procs[p].pc = "awaitUser" =>
      inputValue = <<>> \/ inputValue # procs[p].inputValue

\* C10: the messages list changes only when a history fetch completes or a
\* realtime callback runs; no step of a submit changes it.
C10_SubmitLeavesMessages ==
  [][ /\ (messages' # messages) => (FetchResume \/ CallbackStep)
      /\ (SubmitIntent \/ StoreInsert \/ UserSaved \/ TimerFires \/ BotSaved)
           => messages' = messages ]_vars

\* A submit has run to its end and its rows are in the remote table, while
\* the list does not show them.
C10_Witness ==
  /\ \E p \in 1..Len(procs) : procs[p].pc = "done"
  /\ \E i \in 1..Len(table) :
       table[i].sender = "user" /\ table[i].id \notin Ids(messages)

\* C11: the messages list is ordered by timestamp ascending in every
\* reachable state.
C11_OrderedByTimestamp ==
  \A i, j \in 1..Len(messages) :
    i < j => messages[i].timestamp <= messages[j].timestamp

\* C12: once a fetch has failed, error stays set, the input stays disabled
\* and no history fetch is issued until a step that opens the widget; that
\* step resets error to null and starts one fetch.
C12_ErrorUntilReopen ==
  [][ /\ (error # NoError /\ ~(~isOpen /\ isOpen')) =>
            /\ error' # NoError
            /\ InputDisabled'
            /\ SendDisabled'
            /\ fetchCalls' = fetchCalls
            /\ fetches' \subseteq
                 fetches \cup UNION { SelectAnswers(f) : f \in fetches }
      /\ (error # NoError /\ ~isOpen /\ isOpen') =>
            /\ error' = NoError
            /\ fetchCalls' = fetchCalls + 1
            /\ SelectRequest(fetchCalls + 1) \in fetches' ]_vars

\* The widget is open with the error of a failed fetch set, no fetch is
\* pending, and the list holds rows received since.
C12_Witness ==
  /\ isOpen /\ mounted
  /\ error # NoError
  /\ ~loading
  /\ fetches = {}
  /\ messages # <<>>

\* C13: a history fetch that succeeds replaces the list by exactly the
\* sequence the store returned (the empty list if it returned nothing),
\* whatever the list held, and leaves loading false and error null.
C13_FetchSuccess ==
  [][ \A f \in fetches :
        (FetchMessagesResume(f) /\ f.state = "data") =>
          /\ messages' = (IF f.dataNull THEN <<>> ELSE f.data)
          /\ loading' = FALSE
          /\ error' = NoError ]_vars

Failed(r) == r.state \in {"error", "thrown"}

\* C14: a persist that fails, of a user or of a bot message, is swallowed:
\* the store keeps no row of it, the resuming handler leaves error, loading
\* and messages as they were and issues no further persist call, and the
\* submit goes on to clear the draft and schedule the bot reply.
C14_PersistFailureSwallowed ==
  [][ \A r \in inserts :
        /\ (SendResume(r) /\ Failed(r)) =>
              /\ UNCHANGED << error, loading, messages, persistLog, table >>
              /\ inputValue' = <<>>
              /\ procs'[r.proc].pc = "timer"
              /\ \A q \in inserts' : q.proc # r.proc
        /\ (BotResume(r) /\ Failed(r)) =>
              /\ UNCHANGED << error, loading, messages, persistLog, table,
                              inputValue >>
              /\ procs'[r.proc].pc = "done"
              /\ \A q \in inserts' : q.proc # r.proc ]_vars

\* A submit has run to its end with both of its persists failed, and the
\* widget shows no error.
C14_Witness ==
  /\ Len(procs) >= 1
  /\ procs[1].pc = "done"
  /\ table = <<>>
  /\ isOpen /\ ~loading /\ error = NoError
  /\ inputValue = <<>>

\* C15: every bot persist call is preceded by a successful persist of the
\* user message it replies to: the remote table holds the user row (text
\* and timestamp of the submit) of every submit whose bot persist has been
\* issued.
C15_BotOnlyAfterSavedUser ==
  \A p \in 1..Len(procs) :
    \A b \in BotCalls(p) : \A u \in UserCalls(p) :
      \E i \in 1..Len(table) :
        /\ table[i].sender = "user"
        /\ table[i].text = persistLog[u].text
        /\ table[i].timestamp = persistLog[u].at

\* C16: closing the widget cancels neither a history fetch in flight nor a
\* scheduled bot reply: in every state where the widget is closed, each
\* answered fetch can complete, setting loading, messages and error from
\* its answer, and each timer that is due can fire and issue its bot
\* persist call.
C16_CloseCancelsNothing ==
  ~isOpen =>
    /\ \A f \in fetches :
         f.state # "pending" =>
           ENABLED ( /\ FetchMessagesResume(f)
                     /\ ~isOpen'
                     /\ loading' = FALSE
                     /\ f.state = "data" => messages' = OrEmpty(f)
                     /\ f.state # "data" => error' # NoError )
    /\ \A p \in 1..Len(procs) :
         (procs[p].pc = "timer" /\ now >= procs[p].due) =>
           ENABLED ( /\ BotReply(p)
                     /\ ~isOpen'
                     /\ Len(persistLog') = Len(persistLog) + 1
                     /\ persistLog'[Len(persistLog')].sender = "bot" )

\* The widget is closed while a fetch has been answered with rows the list
\* does not show and the loading flag is still up, and a bot reply is due.
C16_Witness ==
  /\ ~isOpen /\ mounted
  /\ loading
  /\ \E f \in fetches : f.state = "data" /\ OrEmpty(f) # messages
  /\ \E p \in 1..Len(procs) : procs[p].pc = "timer" /\ now >= procs[p].due

\* ------------------------------------------ the callback's updater alone
MaxFeed == 2         \* rows the realtime feed reports

\* payload.new.id of a row that carries no id (undefined).
NoId == 0

\* Rows the feed can report, with and without an id.
DedupRows ==
  [id : {NoId, 1, 2}, text : {<<"a">>, <<"b">>}, sender : {"user", "bot"},
   timestamp : {0, BOT_REPLY_DELAY_MS}]

RECURSIVE SeqsUpTo(_, _)
SeqsUpTo(S, n) ==
  IF n = 0 THEN { <<>> }
  ELSE LET shorter == SeqsUpTo(S, n - 1)
       IN shorter \cup { Append(q, x) : q \in shorter, x \in S }

\* The widget is open and loaded with an empty list, its channel is
\* subscribed, and table holds the rows the feed is going to report.
DedupInit ==
  /\ messages = <<>>
  /\ inputValue = <<>>
  /\ isOpen = TRUE
  /\ loading = FALSE
  /\ error = NoError
  /\ mounted = TRUE
  /\ effectChannel = 1
  /\ fetches = {}
  /\ fetchCalls = 1
  /\ procs = <<>>
  /\ inserts = {}
  /\ persistLog = <<>>
  /\ table \in SeqsUpTo(DedupRows, MaxFeed)
  /\ channels = { [id |-> 1, since |-> 0] }
  /\ subsCreated = 1
  /\ now = 0

\* The feed reports its next row, once, and the callback's updater runs.
DedupDeliver ==
  \E c \in channels :
    /\ c.since < Len(table)
    /\ messages' = AppendIfNew(messages, table[c.since + 1])
    /\ channels' = { [c EXCEPT !.since = c.since + 1] }
    /\ UNCHANGED << inputValue, isOpen, loading, error, mounted, effectChannel,
                    fetchVars, sendVars, table, subsCreated, now >>

DedupNext == DedupDeliver

DedupSpec == DedupInit /\ [][DedupNext]_vars

SameTriple(m, n) ==
  m.sender = n.sender /\ m.text = n.text /\ m.timestamp = n.timestamp

\* C17: a reported row that lacks an id is appended unless an entry with
\* the same sender, text and timestamp is in the list: every id-less row
\* reported so far has an entry with its sender, text and timestamp, and no
\* id-less entry follows an entry with the same three.
C17_IdlessDedupByTriple ==
  \A c \in channels :
    /\ \A i \in 1..c.since :
         table[i].id = NoId =>
           \E j \in 1..Len(messages) : SameTriple(messages[j], table[i])
    /\ \A j, k \in 1..Len(messages) :
         (j < k /\ messages[k].id = NoId) =>
           ~SameTriple(messages[j], messages[k])

\* C18: whenever a history fetch is in flight, loading is true.
C18_LoadingWhileFetching == fetches # {} => loading

\* C19: when the history fetch started by the current open completes with
\* rows, every row that the current channel has reported and that is in the
\* list is still in the list.
C19_NoRealtimeRowLost ==
  [][ \A f \in fetches :
        ( /\ FetchMessagesResume(f)
          /\ f.state = "data"
          /\ isOpen
          /\ f.id = effectChannel ) =>
          \A c \in channels : \A i \in (c.since + 1)..Len(table) :
            table[i].id \in Ids(messages) => table[i].id \in Ids(messages')
    ]_vars

\* C20: a step from open to closed leaves messages, the draft, loading and
\* error as they were.
C20_CloseKeepsState ==
  [][ (isOpen /\ ~isOpen') =>
        UNCHANGED << messages, inputValue, loading, error >> ]_vars

\* The widget has been closed with rows in the list, a draft in the input
\* and an error set.
C20_Witness ==
  /\ ~isOpen /\ mounted
  /\ subsCreated >= 1
  /\ messages # <<>>
  /\ inputValue # <<>>
  /\ ~loading
  /\ error # NoError

====
